---- MODULE Spec2Model ----
(***************************************************************************)
(* Clippo (src/app.py): a Flask application that downloads a media file    *)
(* into static/downloads with yt-dlp, serves it through Flask's static     *)
(* route and deletes it from a background thread once its modification     *)
(* time is older than MAX_FILE_AGE_SECONDS.                                *)
(*                                                                         *)
(* The only shared state is the directory UPLOAD_FOLDER.  The model keeps  *)
(* it as a function from file names to [size, mtime]; request threads and  *)
(* the cleanup thread interleave at the granularity of their file system   *)
(* calls.  Time is a discrete wall clock in seconds.                       *)
(***************************************************************************)
EXTENDS Integers, Sequences, FiniteSets, TLC

VARIABLES
    now,        \* wall clock, time.time()
    files,      \* UPLOAD_FOLDER: file name -> [size, mtime]
    dl,         \* request threads running /download
    usePart,    \* whether the extractor library writes through a temporary file
    swPc,       \* cleanup thread: "sleep", "loop", "stat" or "remove"
    wakeAt,     \* end of the cleanup thread's current time.sleep
    swNow,      \* cleanup_old_files: local `now`
    listing,    \* cleanup_old_files: entries of os.listdir not yet visited
    swCur,      \* cleanup_old_files: file_path of the current iteration
    requests,   \* number of /download requests accepted so far
    reply,      \* the answer a /download request has returned at this instant
    drawn,      \* history: names built from the identifiers drawn so far
    collided,   \* history: a download drew the identifier of an earlier one
    returned,   \* history: names handed to a caller by a successful /download
    deleted,    \* history: names of the Available files the cleanup thread removed
    rmFailed,   \* history: names on which os.remove raised, the file being there
    rmGone,     \* history: names on which os.remove raised, the file being gone
    lastOk      \* history: the latest successful /download, for one TTL

vars == <<now, files, dl, usePart, swPc, wakeAt, swNow, listing, swCur, requests,
          reply, drawn, collided, returned, deleted, rmFailed, rmGone, lastOk>>

----------------------------------------------------------------------------
(* Configuration, src/app.py lines 15-16.                                  *)
MAX_FILE_AGE_SECONDS == 60
CLEANUP_INTERVAL_SECONDS == 30

(* Bounds of the model.                                                    *)
MaxTime == 120          \* the clock stops here
ArtifactSize == 2       \* chunks of a complete media file
MaxRequests == 2        \* /download requests accepted in one run
MaxRemoveFailures == 1  \* files on which os.remove raises in one run

TickSteps == {30}       \* the clock advances in steps of 30 seconds
Threads == {1, 2}       \* concurrent request threads
UIDs == {"a1b2c3d4", "e5f6a7b8"}   \* values of str(uuid.uuid4())[:8]
FirstUid == "a1b2c3d4"
ClipTitle == <<"c", "l", "i", "p">>
Titles == {ClipTitle}   \* titles the extractor reports, as character sequences
NoUid == "-"
NoName == <<>>

(* outtmpl, line 120: video_<unique_id>_<title>.<ext> inside UPLOAD_FOLDER. *)
(* The handler hands the template to the extractor with the title field as *)
(* it is: no function of this file is applied to the title.                *)
FileName(uid, title) == <<"video", uid, title, "mp4">>
(* The extractor is a library outside this repository: it may write its    *)
(* output in place, or into a temporary file next to it that it renames    *)
(* when the download is complete.  Which one is fixed for a run (usePart). *)
PartName(uid, title) == <<"video", uid, title, "mp4", "part">>
(* A file left in UPLOAD_FOLDER by an earlier run of the process;          *)
(* setup_app (line 24) keeps what the folder holds.                        *)
LeftoverName == <<"video", "0ldf11e0", ClipTitle, "mp4">>
FinalNames == {FileName(u, t) : u \in UIDs, t \in Titles}
StoredNames == FinalNames \cup {LeftoverName}
Names == FinalNames \cup {PartName(u, t) : u \in UIDs, t \in Titles}
               \cup {LeftoverName}

Max(a, b) == IF a >= b THEN a ELSE b

(* The title field of a file name built by FileName or PartName.           *)
TitlePart(n) == n[3]

----------------------------------------------------------------------------
(* clean_filename, lines 31-33: re.sub(r'[\\/*?:"<>|]', "", filename).       *)
IllegalChars == {"\\", "/", "*", "?", ":", "\"", "<", ">", "|"}
clean_filename(filename) == SelectSeq(filename, LAMBDA c : c \notin IllegalChars)

(* Titles for the runs that look at names: every character sequence of at  *)
(* most MaxTitleLen characters over the illegal characters and two legal   *)
(* ones, and the title a/b:c*d.                                            *)
MaxTitleLen == 2
TitleChars == IllegalChars \cup {"a", "."}
ExampleTitle == <<"a", "/", "b", ":", "c", "*", "d">>
TitleInputs ==
    UNION {[1..k -> TitleChars] : k \in 0..MaxTitleLen} \cup {ExampleTitle}

----------------------------------------------------------------------------
(* is_valid_url, lines 35-41.  A URL is a sequence of lexical tokens.      *)
Urls ==
    { <<>>,
      <<"instagram.com", "/", "reel">>,
      <<"https", ":", "//", "example.com", "/", "instagram.com">>,
      <<"https", ":", "//", "www.", "instagram.com", "/", "reel">> }

RECURSIVE TakeUntilSlash(_)
TakeUntilSlash(s) ==
    IF s = <<>> \/ Head(s) = "/" THEN <<>>
    ELSE <<Head(s)>> \o TakeUntilSlash(Tail(s))

(* urlparse: the scheme is what precedes ":", the netloc what follows "//" *)
(* up to the next "/".                                                     *)
urlparse(url) ==
    LET hasScheme == Len(url) >= 2 /\ url[2] = ":"
        rest == IF hasScheme THEN SubSeq(url, 3, Len(url)) ELSE url
        hasNetloc == Len(rest) >= 1 /\ rest[1] = "//"
    IN  [scheme |-> IF hasScheme THEN <<url[1]>> ELSE <<>>,
         netloc |-> IF hasNetloc THEN TakeUntilSlash(Tail(rest)) ELSE <<>>]

is_valid_url(url) ==
    LET parsed == urlparse(url)
    IN  /\ parsed.scheme # <<>>
        /\ parsed.netloc # <<>>
        /\ \E i \in 1..Len(parsed.netloc) : parsed.netloc[i] = "instagram.com"

----------------------------------------------------------------------------
IdleThread ==
    [pc |-> "idle", uid |-> NoUid, title |-> ClipTitle, written |-> 0,
     open |-> NoName]
NoReply == [result |-> "none", name |-> NoName]
NoOk == [name |-> NoName, at |-> 0]

(* The name the handler returns (line 127-131) and the name the extractor  *)
(* writes to.                                                              *)
Target(t) == FileName(dl[t].uid, dl[t].title)
WriteName(t) ==
    IF usePart THEN PartName(dl[t].uid, dl[t].title) ELSE Target(t)

(* Derived life cycle of a name: a file some request thread still has      *)
(* open for writing is Writing, any other file in the folder is what the   *)
(* static route and the cleanup thread see as a stored file.               *)
Writing(n) ==
    /\ n \in DOMAIN files
    /\ \E t \in Threads : dl[t].pc = "extract" /\ dl[t].open = n
Available(n) == n \in DOMAIN files /\ ~Writing(n)

RemoveFile(n) == [m \in DOMAIN files \ {n} |-> files[m]]
PutFile(n, rec) == [m \in DOMAIN files \cup {n} |-> IF m = n THEN rec ELSE files[m]]
(* os.replace(src, dst): dst becomes the file src was, mtime included.     *)
RenameFile(src, dst) ==
    [m \in (DOMAIN files \ {src}) \cup {dst} |-> IF m = dst THEN files[src] ELSE files[m]]

Init ==
    /\ now = 0
    /\ files = [n \in {LeftoverName} |-> [size |-> ArtifactSize, mtime |-> 0]]
    /\ dl = [t \in Threads |-> IdleThread]
    /\ usePart \in BOOLEAN
    /\ swPc = "sleep"
    /\ wakeAt = CLEANUP_INTERVAL_SECONDS
    /\ swNow = 0
    /\ listing = {}
    /\ swCur = NoName
    /\ requests = 0
    /\ reply = NoReply
    /\ drawn = {}
    /\ collided = FALSE
    /\ returned = {}
    /\ deleted = {}
    /\ rmFailed = {}
    /\ rmGone = {}
    /\ lastOk = NoOk

----------------------------------------------------------------------------
(* The wall clock.  time.sleep returns when its interval is over, so the   *)
(* clock does not run past the end of the cleanup thread's sleep, and a    *)
(* cleanup pass takes no time on this clock.  `reply` keeps the latest      *)
(* answer of /download until time passes: reply.result # "none" marks a    *)
(* request that has returned at this very instant.  `lastOk` keeps the     *)
(* latest successful answer and its time for MAX_FILE_AGE_SECONDS.         *)
Tick ==
    /\ swPc = "sleep"
    /\ \E d \in TickSteps :
         /\ now + d <= MaxTime
         /\ now + d <= wakeAt
         /\ now' = now + d
    /\ reply' = NoReply
    /\ lastOk' = IF now' - lastOk.at >= MAX_FILE_AGE_SECONDS THEN NoOk ELSE lastOk
    /\ UNCHANGED <<files, dl, usePart, swPc, wakeAt, swNow, listing, swCur,
                   requests, drawn, collided, returned, deleted, rmFailed,
                   rmGone>>

----------------------------------------------------------------------------
(* /download, lines 108-137.  Request threads are interchangeable: a       *)
(* request runs on the first idle one.                                     *)
FirstIdle(t) ==
    /\ dl[t].pc = "idle"
    /\ \A u \in Threads : u < t => dl[u].pc # "idle"

(* A variant of lines 110-117 in which the identifier is drawn before the  *)
(* URL is tested.                                                          *)
DownloadInvalidLate(t, url) ==
    /\ FirstIdle(t)
    /\ (url = <<>> \/ ~is_valid_url(url))
    /\ requests < MaxRequests
    /\ requests' = requests + 1
    /\ drawn' = drawn \cup {FileName(FirstUid, ClipTitle)}
    /\ collided' = (collided \/ FileName(FirstUid, ClipTitle) \in drawn)
    /\ reply' = [result |-> "invalid", name |-> NoName]
    /\ UNCHANGED <<now, files, dl, usePart, swPc, wakeAt, swNow, listing,
                   swCur, returned, deleted, rmFailed, rmGone, lastOk>>

(* Lines 110-114: a missing or invalid URL is answered with 400.           *)
DownloadInvalid(t, url) ==
    /\ FirstIdle(t)
    /\ (url = <<>> \/ ~is_valid_url(url))
    /\ reply' = [result |-> "invalid", name |-> NoName]
    /\ UNCHANGED <<now, files, dl, usePart, swPc, wakeAt, swNow, listing,
                   swCur, requests, drawn, collided, returned, deleted,
                   rmFailed, rmGone, lastOk>>

(* Line 117: unique_id = str(uuid.uuid4())[:8]: any of the 16^8 values,    *)
(* whatever the folder holds and whatever was handed out before.  The      *)
(* values are interchangeable, so the first one drawn in a run is called   *)
(* FirstUid.                                                               *)
AllocatableUid(uid) == uid \in UIDs /\ (requests = 0 => uid = FirstUid)

(* Lines 116-126: the identifier is drawn, the output template is built    *)
(* from it and extract_info(url, download=True) is entered.                *)
DownloadBegin(t, url, uid, title) ==
    /\ FirstIdle(t)
    /\ url # <<>>
    /\ is_valid_url(url)
    /\ requests < MaxRequests
    /\ AllocatableUid(uid)
    /\ requests' = requests + 1
    /\ drawn' = drawn \cup {FileName(uid, title)}
    /\ collided' = (collided \/ FileName(uid, title) \in drawn)
    /\ dl' = [dl EXCEPT ![t] = [pc |-> "extract", uid |-> uid, title |-> title,
                                written |-> 0, open |-> NoName]]
    /\ UNCHANGED <<now, files, usePart, swPc, wakeAt, swNow, listing, swCur,
                   reply, returned, deleted, rmFailed, rmGone, lastOk>>

(* Line 126, inside extract_info: the extractor writes the next chunk.     *)
(* The first chunk creates the file (truncating a file of that name);      *)
(* later chunks go to the file the thread has open, which is no longer in  *)
(* the folder once it was removed or replaced.                             *)
ExtractWrite(t) ==
    LET n == IF dl[t].written = 0 THEN WriteName(t) ELSE dl[t].open IN
    /\ dl[t].pc = "extract"
    /\ dl[t].written < ArtifactSize
    /\ IF dl[t].written = 0
         THEN files' = PutFile(n, [size |-> 1, mtime |-> now])
         ELSE IF n \in DOMAIN files
           THEN files' = [files EXCEPT ![n] =
                            [size |-> Max(@.size, dl[t].written + 1), mtime |-> now]]
           ELSE files' = files
    /\ dl' = [dl EXCEPT ![t] = [@ EXCEPT !.written = @ + 1, !.open = n]]
    /\ UNCHANGED <<now, usePart, swPc, wakeAt, swNow, listing, swCur,
                   requests, reply, drawn, collided, returned, deleted,
                   rmFailed, rmGone, lastOk>>

(* Lines 126-134: the download is complete.  An extractor that wrote a     *)
(* temporary file renames it to the output path (and raises if it is       *)
(* gone); extract_info returns and the handler answers with the url of     *)
(* prepare_filename(info) and expires_in_seconds.                          *)
ExtractFinish(t) ==
    /\ dl[t].pc = "extract"
    /\ dl[t].written = ArtifactSize
    /\ IF usePart
         THEN /\ dl[t].open = WriteName(t)
              /\ files' = RenameFile(WriteName(t), Target(t))
              /\ dl' = [u \in Threads |->
                          IF u = t THEN IdleThread
                          ELSE IF dl[u].open = WriteName(t)
                            THEN [dl[u] EXCEPT !.open = Target(t)]
                          ELSE IF dl[u].open = Target(t)
                            THEN [dl[u] EXCEPT !.open = NoName]
                          ELSE dl[u]]
         ELSE /\ files' = files
              /\ dl' = [dl EXCEPT ![t] = IdleThread]
    /\ reply' = [result |-> "ok", name |-> Target(t)]
    /\ returned' = returned \cup {Target(t)}
    /\ lastOk' = [name |-> Target(t), at |-> now]
    /\ UNCHANGED <<now, usePart, swPc, wakeAt, swNow, listing, swCur,
                   requests, drawn, collided, deleted, rmFailed, rmGone>>

(* Lines 135-137: extract_info raised; the handler logs and answers 500.   *)
(* Nothing the extractor wrote is removed.                                 *)
ExtractFail(t) ==
    /\ dl[t].pc = "extract"
    /\ dl' = [dl EXCEPT ![t] = IdleThread]
    /\ reply' = [result |-> "error", name |-> NoName]
    /\ UNCHANGED <<now, files, usePart, swPc, wakeAt, swNow, listing, swCur,
                   requests, drawn, collided, returned, deleted, rmFailed,
                   rmGone, lastOk>>

----------------------------------------------------------------------------
(* GET /static/downloads/<name>: Flask's static route (app = Flask(...),   *)
(* line 12, UPLOAD_FOLDER under static/, line 14) sends whatever file of   *)
(* that name is in the folder, and 404 otherwise.  It reads the folder and *)
(* changes nothing, so it is an operator on the current state.             *)
ResolveResult(n) ==
    IF n \in DOMAIN files
      THEN [found |-> TRUE, bytes |-> files[n].size]
      ELSE [found |-> FALSE, bytes |-> 0]

----------------------------------------------------------------------------
(* background_cleanup_task and cleanup_old_files, lines 43-70.             *)

(* Line 55: the age test.                                                  *)
IsOld(sweepNow, mtime) == (sweepNow - mtime) > MAX_FILE_AGE_SECONDS

(* Line 69: the end of a sleep that starts at t.                           *)
SleepUntil(t) == t + CLEANUP_INTERVAL_SECONDS

(* A variant of lines 66-70 in which the passes are started by a timer     *)
(* that fires every CLEANUP_INTERVAL_SECONDS, whether or not the previous  *)
(* pass has returned.                                                      *)
SweepBeginOnTimer ==
    /\ now >= wakeAt
    /\ swPc' = "loop"
    /\ swNow' = now
    /\ listing' = DOMAIN files
    /\ swCur' = NoName
    /\ UNCHANGED <<now, files, dl, usePart, wakeAt, requests, reply, drawn,
                   collided, returned, deleted, rmFailed, rmGone, lastOk>>

(* Lines 69, 46-52: the sleep is over; cleanup_old_files reads the clock   *)
(* and lists the folder.                                                   *)
SweepBegin ==
    /\ swPc = "sleep"
    /\ now >= wakeAt
    /\ swPc' = "loop"
    /\ swNow' = now
    /\ listing' = DOMAIN files
    /\ UNCHANGED <<now, files, dl, usePart, wakeAt, swCur, requests, reply,
                   drawn, collided, returned, deleted, rmFailed, rmGone,
                   lastOk>>

(* Lines 52-54: the next entry of the listing; os.path.isfile is false for *)
(* an entry that is gone, and the loop goes on.                            *)
SweepIsFile(n) ==
    /\ swPc = "loop"
    /\ n \in listing
    /\ listing' = listing \ {n}
    /\ IF n \in DOMAIN files
         THEN swPc' = "stat" /\ swCur' = n
         ELSE UNCHANGED <<swPc, swCur>>
    /\ UNCHANGED <<now, files, dl, usePart, wakeAt, swNow, requests, reply,
                   drawn, collided, returned, deleted, rmFailed, rmGone,
                   lastOk>>

(* Line 55: os.path.getmtime and the age test.                             *)
SweepStat ==
    /\ swPc = "stat"
    /\ swCur \in DOMAIN files
    /\ IF IsOld(swNow, files[swCur].mtime)
         THEN swPc' = "remove" /\ swCur' = swCur
         ELSE swPc' = "loop" /\ swCur' = NoName
    /\ UNCHANGED <<now, files, dl, usePart, wakeAt, swNow, listing, requests,
                   reply, drawn, collided, returned, deleted, rmFailed,
                   rmGone, lastOk>>

(* A variant of lines 43-64 without the outer try: the exception of        *)
(* os.path.getmtime leaves background_cleanup_task and the thread ends.    *)
SweepStatKills ==
    /\ swPc = "stat"
    /\ swCur \notin DOMAIN files
    /\ swPc' = "dead"
    /\ swNow' = 0
    /\ listing' = {}
    /\ swCur' = NoName
    /\ UNCHANGED <<now, files, dl, usePart, wakeAt, requests, reply, drawn,
                   collided, returned, deleted, rmFailed, rmGone, lastOk>>

(* Lines 55, 63-64: os.path.getmtime raises for a file that is gone; the   *)
(* exception leaves the loop, is logged by the outer handler, and the pass *)
(* is over.                                                                *)
SweepStatRaises ==
    /\ swPc = "stat"
    /\ swCur \notin DOMAIN files
    /\ swPc' = "sleep"
    /\ wakeAt' = SleepUntil(now)
    /\ swNow' = 0
    /\ listing' = {}
    /\ swCur' = NoName
    /\ UNCHANGED <<now, files, dl, usePart, requests, reply, drawn, collided,
                   returned, deleted, rmFailed, rmGone, lastOk>>

(* Lines 57-59: os.remove succeeds.  Threads that have the file open keep  *)
(* writing to a file that is no longer in the folder.                      *)
SweepRemove ==
    /\ swPc = "remove"
    /\ swCur \in DOMAIN files
    /\ files' = RemoveFile(swCur)
    /\ dl' = [t \in Threads |->
                IF dl[t].open = swCur THEN [dl[t] EXCEPT !.open = NoName] ELSE dl[t]]
    /\ deleted' = IF Available(swCur) /\ swCur \in StoredNames
                     THEN deleted \cup {swCur} ELSE deleted
    /\ swPc' = "loop"
    /\ swCur' = NoName
    /\ UNCHANGED <<now, usePart, wakeAt, swNow, listing, requests, reply,
                   drawn, collided, returned, rmFailed, rmGone, lastOk>>

(* A variant of lines 56-61 without the inner try: the exception of        *)
(* os.remove reaches the outer handler of line 63 and ends the pass.       *)
SweepRemoveEscapes ==
    /\ swPc = "remove"
    /\ swCur \notin DOMAIN files
    /\ rmGone' = rmGone \cup {swCur}
    /\ swPc' = "sleep"
    /\ wakeAt' = SleepUntil(now)
    /\ swNow' = 0
    /\ listing' = {}
    /\ swCur' = NoName
    /\ UNCHANGED <<now, files, dl, usePart, requests, reply, drawn, collided,
                   returned, deleted, rmFailed, lastOk>>

(* Lines 57, 60-61: os.remove raises, because the file is gone or because  *)
(* the system refuses; the error is logged and the loop goes on.           *)
SweepRemoveRaises ==
    /\ swPc = "remove"
    /\ \/ /\ swCur \notin DOMAIN files
          /\ rmGone' = rmGone \cup {swCur}
          /\ rmFailed' = rmFailed
       \/ /\ swCur \in DOMAIN files
          /\ Cardinality(rmFailed \cup {swCur}) <= MaxRemoveFailures
          /\ rmFailed' = rmFailed \cup {swCur}
          /\ rmGone' = rmGone
    /\ swPc' = "loop"
    /\ swCur' = NoName
    /\ UNCHANGED <<now, files, dl, usePart, wakeAt, swNow, listing, requests,
                   reply, drawn, collided, returned, deleted, lastOk>>

(* Lines 62, 68-69: the listing is exhausted; back to sleep.               *)
SweepEnd ==
    /\ swPc = "loop"
    /\ listing = {}
    /\ swPc' = "sleep"
    /\ wakeAt' = SleepUntil(now)
    /\ swNow' = 0
    /\ UNCHANGED <<now, files, dl, usePart, listing, swCur, requests, reply,
                   drawn, collided, returned, deleted, rmFailed, rmGone,
                   lastOk>>

----------------------------------------------------------------------------
Next ==
    \/ Tick
    \/ \E t \in Threads, url \in Urls : DownloadInvalid(t, url)
    \/ \E t \in Threads, url \in Urls, uid \in UIDs, title \in Titles :
         DownloadBegin(t, url, uid, title)
    \/ \E t \in Threads : ExtractWrite(t)
    \/ \E t \in Threads : ExtractFinish(t)
    \/ \E t \in Threads : ExtractFail(t)
    \/ SweepBegin
    \/ \E n \in Names : SweepIsFile(n)
    \/ SweepStat
    \/ SweepStatRaises
    \/ SweepRemove
    \/ SweepRemoveRaises
    \/ SweepEnd

Spec == Init /\ [][Next]_vars

(* The clock beyond MaxTime: every time of the state is moved back by the  *)
(* step instead of the clock moving on.  Modification times stop at 0, so  *)
(* an age that exceeds MaxTime reads as MaxTime, which is beyond the TTL.  *)
TickWrap ==
    /\ swPc = "sleep"
    /\ \E d \in TickSteps :
         /\ now + d > MaxTime
         /\ now + d <= wakeAt
         /\ wakeAt' = wakeAt - d
         /\ files' = [n \in DOMAIN files |->
                        [files[n] EXCEPT !.mtime = Max(0, @ - d)]]
         /\ lastOk' = IF now + d - lastOk.at >= MAX_FILE_AGE_SECONDS
                         THEN NoOk ELSE [lastOk EXCEPT !.at = @ - d]
    /\ reply' = NoReply
    /\ UNCHANGED <<now, dl, usePart, swPc, swNow, listing, swCur, requests,
                   drawn, collided, returned, deleted, rmFailed, rmGone>>

(* The steps of the cleanup thread.                                        *)
SweepStep ==
    \/ SweepBegin
    \/ \E n \in Names : SweepIsFile(n)
    \/ SweepStat
    \/ SweepStatRaises
    \/ SweepRemove
    \/ SweepRemoveRaises
    \/ SweepEnd

(* The program with an unbounded clock and one request thread.  The        *)
(* cleanup thread is a thread of the process and is scheduled as long as   *)
(* it can take a step; time passes.                                        *)
NextLive ==
    \/ Tick
    \/ TickWrap
    \/ \E url \in Urls : DownloadInvalid(1, url)
    \/ \E url \in Urls, uid \in UIDs, title \in Titles :
         DownloadBegin(1, url, uid, title)
    \/ ExtractWrite(1)
    \/ ExtractFinish(1)
    \/ ExtractFail(1)
    \/ SweepStep

SpecLive ==
    /\ Init
    /\ [][NextLive]_vars
    /\ WF_vars(Tick \/ TickWrap)
    /\ WF_vars(SweepStep)

(* One /download request whose extractor reports any title of TitleInputs; *)
(* the cleanup thread sleeps.                                              *)
NextNames ==
    \/ \E url \in Urls, title \in TitleInputs :
         requests = 0 /\ DownloadBegin(1, url, FirstUid, title)
    \/ ExtractWrite(1)
    \/ ExtractFinish(1)
    \/ ExtractFail(1)

SpecNames == Init /\ [][NextNames]_vars

----------------------------------------------------------------------------
(* Claims about the served folder.                                         *)

Complete == [found |-> TRUE, bytes |-> ArtifactSize]

(* C1: a serve request for a file that is not Available (still being       *)
(* written, or already deleted) is answered NotFound.                      *)
C1_OnlyAvailableServed ==
    \A n \in Names : ~Available(n) => ~ResolveResult(n).found

(* C2: no file is ever Available with fewer bytes than the complete        *)
(* artifact; after a failed write the file is absent or still Writing.     *)
C2_NeverAvailableTruncated ==
    \A n \in Names : Available(n) => files[n].size = ArtifactSize

(* C3: the cleanup thread never removes a file that is still Writing.      *)
C3_SweepSparesWriting == [][SweepRemove => ~Writing(swCur)]_vars

(* C4: at the instant a download has returned successfully, a resolve of   *)
(* the returned reference finds the file with exactly the bytes written,   *)
(* whatever cleanup steps ran since the return.  Stated for the runs in    *)
(* which no two downloads drew one identifier, so that a violation does    *)
(* not rest on such a collision.                                           *)
C4_FreshReferenceResolves ==
    (reply.result = "ok" /\ ~collided) => ResolveResult(reply.name) = Complete

(* C5: once more than TTL + one sweep interval has passed since a file's   *)
(* modification time, a resolve of it is answered NotFound.  Stated for    *)
(* the files on which os.remove never raised, so that a violation does not *)
(* rest on a failing file system.                                          *)
C5_GoneAfterTtlPlusInterval ==
    \A n \in Names :
        (n \in DOMAIN files /\ n \notin rmFailed)
            => now - files[n].mtime
                 <= MAX_FILE_AGE_SECONDS + CLEANUP_INTERVAL_SECONDS

(* C6: the cleanup thread never removes an Available file whose age is at  *)
(* most TTL.                                                               *)
C6_YoungAvailableSurvives ==
    [][SweepRemove =>
         ~(Available(swCur) /\ now - files[swCur].mtime <= MAX_FILE_AGE_SECONDS)]_vars

(* C7: once a stored file has been deleted, a resolve of its name is       *)
(* answered NotFound ever after.                                           *)
C7_NoResurrection ==
    \A n \in deleted : ~ResolveResult(n).found

(* C8: a name that no download has returned to a caller is answered        *)
(* NotFound.                                                               *)
C8_UnreturnedNeverResolves ==
    \A n \in Names : n \notin returned => ~ResolveResult(n).found

(* C9: no two downloads, one after the other or concurrent, with the same  *)
(* title and extension obtain the same identifier.                         *)
C9_IdentifiersUnique == ~collided

(* C10: when a download returns an extraction failure, no file that this   *)
(* download wrote is left in the folder.                                   *)
C10_FailureLeavesNothing ==
    [][\A t \in Threads : ExtractFail(t) => dl[t].open \notin DOMAIN files']_vars

----------------------------------------------------------------------------
(* Claims about the cleanup pass.                                          *)

(* C11: deleting a file that is already gone is a no-op: when os.remove is *)
(* called on a name that is no longer in the folder, the folder is left as *)
(* it is and the caller, the cleanup pass, goes on with its listing.       *)
C11_RemoveOfMissingIsNoOp ==
    [][(swPc = "remove" /\ swCur \notin DOMAIN files /\ swPc' # swPc)
          => (files' = files /\ swPc' = "loop" /\ listing' = listing
                /\ swNow' = swNow /\ wakeAt' = wakeAt)]_vars
C11_Witness ==
    \E n \in rmGone : n \notin DOMAIN files /\ swPc = "loop"

C14_PassVisitsWholeListing ==
    [][(swPc # "sleep" /\ swPc' = "sleep") => listing = {}]_vars

(* C15: a failure on one file is isolated: when a pass ends, it leaves     *)
(* behind no expired file of its listing that it did not try to delete.    *)
C15_NoExpiredFileSkipped ==
    [][(swPc # "sleep" /\ swPc' = "sleep")
          => \A n \in listing :
               n \in DOMAIN files => ~IsOld(swNow, files[n].mtime)]_vars

(* C16: a download purges the expired files before it draws its identifier *)
(* and enters the extractor: at that step no file older than the TTL is in *)
(* the folder.                                                             *)
C16_DownloadPurgesFirst ==
    [][\A t \in Threads :
         (dl[t].pc = "idle" /\ dl'[t].pc = "extract")
            => \A n \in DOMAIN files' :
                 now - files'[n].mtime <= MAX_FILE_AGE_SECONDS]_vars

(* C19: expires_in_seconds is a guaranteed lifetime: the file a download   *)
(* returned is not removed before MAX_FILE_AGE_SECONDS have passed since   *)
(* the answer.  Stated for the runs without an identifier collision.       *)
C19_LifetimeAfterAnswer ==
    [][SweepRemove =>
         ~(/\ swCur = lastOk.name
           /\ ~collided
           /\ now - lastOk.at < MAX_FILE_AGE_SECONDS)]_vars

(* C20: a /download request with a missing or invalid URL is answered with *)
(* an error and changes nothing: no file, no identifier, no extractor run. *)
C20_InvalidUrlChangesNothing ==
    [][(reply.result # "invalid" /\ reply'.result = "invalid")
          => (/\ files' = files
              /\ dl' = dl
              /\ requests' = requests
              /\ drawn' = drawn
              /\ returned' = returned)]_vars
C20_Witness ==
    /\ reply.result = "invalid"
    /\ \E t \in Threads : dl[t].pc = "extract" /\ dl[t].written > 0

----------------------------------------------------------------------------
(* Claims about names.                                                     *)

(* C12: the name under which a download stores its file contains none of   *)
(* the characters \ / * ? : " < > |, whatever the title: its title part is  *)
(* the title with exactly those characters removed.                        *)
C12_StoredNamesSanitized ==
    \A n \in DOMAIN files : clean_filename(TitlePart(n)) = TitlePart(n)

(* C13: when the sanitized title is empty, the title part of the stored    *)
(* name is the fallback token "video".                                     *)
FallbackTitle == <<"v", "i", "d", "e", "o">>
C13_EmptyTitleFallsBack ==
    \A t \in Threads :
        (dl[t].pc = "extract" /\ clean_filename(dl[t].title) = <<>>)
            => TitlePart(Target(t)) = FallbackTitle

====
